---- MODULE Spec2Model ----
(***************************************************************************)
(* Model of api_service.py: the two FastAPI endpoints /scrape and          *)
(* /search-and-scrape, the browser session they open, the listing query,   *)
(* the concurrent detail fetches and the redirect branch.                  *)
(*                                                                         *)
(* One HTTP request is followed from the endpoint call to its response.    *)
(* The browser and the semantic-query service are the environment: every   *)
(* awaited call on them either succeeds or raises, chosen with \E.         *)
(* Optional values (Python None) are sequences of length 0 or 1.           *)
(***************************************************************************)
EXTENDS Integers, Sequences, FiniteSets, TLC

\* ---------------------------------------------------------------- bounds
\* Largest number of products the listing query may answer with.
MaxListed == 6
\* Number of distinct product names on the site (names repeat on a listing).
NumNames == 3
\* Number of names the caller may put in existing_product_names.
NumKnownPool == 2

\* ------------------------------------------------------- program constants
\* products[:5]
FirstN == 5
\* 300 <= response.status < 400
RedirectLo == 300
RedirectHi == 400

\* ------------------------------------------------------------ environment
None == <<>>
Some(x) == <<x>>

Range(s) == {s[i] : i \in 1..Len(s)}

NameOf(i) == "n" \o ToString(((i - 1) % NumNames) + 1)
LinkOf(i) == "p" \o ToString(i)
ImgOf(i) == "img" \o ToString(i)

\* ProductBase: the identity triple.
ProductBase(n, l, g) == [name |-> n, link |-> l, img |-> g]

\* The i-th product summary shown by the site.
SiteProduct(i) == ProductBase(NameOf(i), LinkOf(i), ImgOf(i))

\* What the listing query answers with: the first n summaries of the site.
ListingResponse(n) == [i \in 1..n |-> SiteProduct(i)]

KnownPool == {NameOf(i) : i \in 1..NumKnownPool}

ListingUrl == "listing"
Keywords == {"xyz 123"}
OtherUrl == "asset"

\* urllib.parse.quote on the keywords of the model.
quote(kw) == IF kw = "xyz 123" THEN "xyz%20123" ELSE kw

\* The f-string of search_and_scrape.
SearchUrl(kw) == "search=" \o quote(kw) \o "&category_id=1096"

\* The answer of PRODUCT_DETAIL_QUERY on the page loaded from url.
DetailResponse(url) == "attrs@" \o url

\* ProductDetails(**product_details.dict(), **detail_response)
ProductDetails(base, detail) ==
    [name |-> base.name, link |-> base.link, img |-> base.img, attrs |-> detail]

BaseOf(d) == ProductBase(d.name, d.link, d.img)

\* The steps of fetch_product_details that can fail.
FetchStages == {"new_page", "goto", "wheel", "detail_query", "info_query", "build"}
FetchOutsideTry == {"new_page", "goto", "wheel"}

\* The responses the browser may report to handle_response during
\* page.goto(search_url): for the search URL itself or for another URL, with
\* or without a Location header.
Responses(search_url) ==
    {[url |-> search_url, status |-> s, location |-> l] :
        s \in {200, 302, 304}, l \in {None, Some(LinkOf(1))}}
    \cup {[url |-> OtherUrl, status |-> 302, location |-> Some(LinkOf(2))],
          [url |-> search_url, status |-> RedirectHi, location |-> Some(LinkOf(1))]}

\* ------------------------------------------------------- pure functions

\* fetch_product_details(context, url, product): fail is the step the
\* environment makes fail ("ok": none), info the answer of PRODUCT_INFO_QUERY
\* (None: a field is missing, so ProductBase(...) raises inside the try).
fetch_product_details(url, product, fail, info) ==
    IF fail \in FetchOutsideTry
    THEN [raised |-> TRUE, exc |-> fail \o " failed", value |-> None, logs |-> {}]
    ELSE IF fail = "detail_query"
    THEN [raised |-> FALSE, exc |-> "", value |-> None, logs |-> {"details"}]
    ELSE IF product = None /\ (fail = "info_query" \/ info = None)
    THEN [raised |-> FALSE, exc |-> "", value |-> None, logs |-> {"details"}]
    ELSE IF fail = "build"
    THEN [raised |-> FALSE, exc |-> "", value |-> None, logs |-> {"details"}]
    ELSE [raised |-> FALSE, exc |-> "",
          value |-> Some(ProductDetails(IF product = None THEN info[1] ELSE product[1],
                                        DetailResponse(url))),
          logs |-> {}]

\* get_names_and_fetch.fetch_product: the try/except around the detail fetch.
fetch_product(product, fail) ==
    LET r == fetch_product_details(product.link, Some(product), fail, None)
    IN  IF r.raised THEN [value |-> None, logs |-> {"processing"}]
        ELSE [value |-> r.value, logs |-> r.logs]

\* products[:5]
TruncateAll(products) == products
Truncate(products) == SubSeq(products, 1, IF Len(products) < FirstN THEN Len(products) ELSE FirstN)

\* [p for p in trunc_products if p.name not in existing_product_names]
NewProductsUnfiltered(trunc, known) == trunc
NewProducts(trunc, known) ==
    LET keep(p) == p.name \notin known IN SelectSeq(trunc, keep)

RECURSIVE InOrder(_, _)
InOrder(results, order) ==
    IF order = <<>> THEN <<>>
    ELSE <<results[Head(order)]>> \o InOrder(results, Tail(order))

\* asyncio.gather(*tasks): the results in the order of the tasks.
GatherAsCompleted(results, order) == InOrder(results, order)
Gather(results, order) == [i \in 1..Len(results) |-> results[i]]

\* [p for p in fetched_products if p is not None]
NotNone(fetched) ==
    LET some(o) == o # None
        kept == SelectSeq(fetched, some)
    IN  [i \in 1..Len(kept) |-> kept[i][1]]

\* response.headers.get('location', search_url)
LocationIgnored(location, default) == default
LocationOrDefault(location, default) == IF location = None THEN default ELSE location[1]

\* handle_response: the new (redirected, final_url).
handle_response(response, search_url, old) ==
    IF response.url = search_url /\ RedirectLo <= response.status /\ response.status < RedirectHi
    THEN [redirected |-> TRUE,
          final_url |-> LocationOrDefault(response.location, search_url)]
    ELSE old

\* result = [details] if details else []
RedirectResult(details) == IF details # None THEN <<details[1]>> ELSE <<>>

\* The arguments search_and_scrape passes to get_names_and_fetch.
NoRedirectCallNoKnown(search_url, known) == [url |-> search_url, known |-> {}]
NoRedirectCall(search_url, known) == [url |-> search_url, known |-> known]

\* try: return result / except Exception as e: raise HTTPException(500, str(e))
EndpointUnguarded(raised, result, exc) ==
    IF raised THEN [kind |-> "unhandled", items |-> <<>>, detail |-> exc]
    ELSE [kind |-> "list", items |-> result, detail |-> ""]
EndpointOutcome(raised, result, exc) ==
    IF raised THEN [kind |-> "http500", items |-> <<>>, detail |-> exc]
    ELSE [kind |-> "list", items |-> result, detail |-> ""]

NoOutcome == [kind |-> "none", items |-> <<>>, detail |-> ""]

\* ------------------------------------------------------------------ state
VARIABLES
    epPc,          \* the endpoint handler: "idle", "await", "done"
    endpoint,      \* "none", "scrape", "search"
    reqUrl,        \* /scrape: url; /search-and-scrape: search_url
    reqKnown,      \* existing_product_names of the request
    outcome,       \* the HTTP response of the request
    browsers,      \* every browser launched: who launched it, its contexts,
                   \* whether browser.close() ran, whether its async with exited
    logged,        \* the logging.error messages written, by kind
    launchCalls,   \* how many times chromium.launch was called
    failedFetches, \* the URLs whose fetch_product_details failed at some step
    sasPc,         \* search_and_scrape: "none", "launch", "goto", "branch",
                   \* "await", "close", "returned", "raised"
    resp,          \* the response handle_response last saw (None before)
    redirected,    \* nonlocal redirected
    final_url,     \* nonlocal final_url
    sasResult,     \* result of search_and_scrape
    sasExc,        \* the exception search_and_scrape raised
    gnfPc,         \* get_names_and_fetch: "none", "launch", "listing", "filter",
                   \* "gather", "returned", "raised"
    gnfCaller,     \* "none", "endpoint", "sas"
    gnfUrl,        \* url
    gnfKnown,      \* existing_product_names
    listed,        \* the products the listing query answered with (None: it failed)
    trunc_products,\* the value get_product_names returned (None or Some(list))
    new_products,  \* new_products
    taskResult,    \* taskResult[i]: what the i-th fetch_product task returned
    completion,    \* the tasks that have finished, in the order they finished
    gnfResult,     \* the list get_names_and_fetch returned
    gnfExc         \* the exception get_names_and_fetch raised

epVars == <<epPc, endpoint, reqUrl, reqKnown, outcome>>
sasVars == <<sasPc, resp, redirected, final_url, sasResult, sasExc>>
gnfVars == <<gnfPc, gnfCaller, gnfUrl, gnfKnown, listed, trunc_products,
             new_products, taskResult, completion, gnfResult, gnfExc>>
envVars == <<browsers, logged, launchCalls, failedFetches>>
vars == <<epVars, envVars, sasVars, gnfVars>>

Init ==
    /\ epPc = "idle" /\ endpoint = "none" /\ reqUrl = "" /\ reqKnown = {}
    /\ outcome = NoOutcome
    /\ browsers = <<>> /\ logged = {} /\ launchCalls = 0 /\ failedFetches = {}
    /\ sasPc = "none" /\ resp = None /\ redirected = FALSE /\ final_url = ""
    /\ sasResult = <<>> /\ sasExc = ""
    /\ gnfPc = "none" /\ gnfCaller = "none" /\ gnfUrl = "" /\ gnfKnown = {}
    /\ listed = None /\ trunc_products = None /\ new_products = <<>>
    /\ taskResult = <<>> /\ completion = <<>> /\ gnfResult = <<>> /\ gnfExc = ""

\* A browser as launched by frame f ("sas" or "gnf").
Launched(f) == [by |-> f, contexts |-> 0, closed |-> FALSE, exited |-> FALSE]

\* The last browser launched by frame f gets a browsing context.
WithContext(bs, f) ==
    LET last == CHOOSE i \in 1..Len(bs) :
                    bs[i].by = f /\ \A j \in (i + 1)..Len(bs) : bs[j].by # f
    IN  [bs EXCEPT ![last].contexts = @ + 1]

\* browser.close() in frame f.
Closed(bs, f) == [i \in 1..Len(bs) |-> IF bs[i].by = f THEN [bs[i] EXCEPT !.closed = TRUE] ELSE bs[i]]

\* Leaving the async with async_playwright() block of frame f, by return or
\* by exception: the playwright driver of that block stops, and its browser
\* goes with it.
Exited(bs, f) == [i \in 1..Len(bs) |-> IF bs[i].by = f THEN [bs[i] EXCEPT !.exited = TRUE] ELSE bs[i]]

\* Entering get_names_and_fetch(url, existing_product_names) from caller c.
EnterGnf(c, url, known) ==
    /\ gnfPc' = "launch" /\ gnfCaller' = c /\ gnfUrl' = url /\ gnfKnown' = known
    /\ UNCHANGED <<listed, trunc_products, new_products, taskResult, completion,
                   gnfResult, gnfExc>>

\* -------------------------------------------------------------- endpoints

\* POST /scrape arrives: the handler awaits get_names_and_fetch.
scrape_endpoint ==
    /\ epPc = "idle"
    /\ \E known \in SUBSET KnownPool :
        /\ epPc' = "await" /\ endpoint' = "scrape"
        /\ reqUrl' = ListingUrl /\ reqKnown' = known
        /\ EnterGnf("endpoint", ListingUrl, known)
    /\ UNCHANGED <<outcome, envVars, sasVars>>

\* The awaited get_names_and_fetch returned or raised: the response.
scrape_endpoint_respond ==
    /\ epPc = "await" /\ endpoint = "scrape"
    /\ gnfCaller = "endpoint" /\ gnfPc \in {"returned", "raised"}
    /\ outcome' = EndpointOutcome(gnfPc = "raised", gnfResult, gnfExc)
    /\ epPc' = "done"
    /\ UNCHANGED <<endpoint, reqUrl, reqKnown, envVars, sasVars, gnfVars>>

\* POST /search-and-scrape arrives: the handler awaits search_and_scrape.
search_and_scrape_endpoint ==
    /\ epPc = "idle"
    /\ \E kw \in Keywords, known \in SUBSET KnownPool :
        /\ epPc' = "await" /\ endpoint' = "search"
        /\ reqUrl' = SearchUrl(kw) /\ reqKnown' = known
        /\ final_url' = SearchUrl(kw)
    /\ sasPc' = "launch"
    /\ UNCHANGED <<outcome, envVars, resp, redirected, sasResult, sasExc, gnfVars>>

\* The awaited search_and_scrape returned or raised: the response.
search_and_scrape_endpoint_respond ==
    /\ epPc = "await" /\ endpoint = "search"
    /\ sasPc \in {"returned", "raised"}
    /\ outcome' = EndpointOutcome(sasPc = "raised", sasResult, sasExc)
    /\ epPc' = "done"
    /\ UNCHANGED <<endpoint, reqUrl, reqKnown, envVars, sasVars, gnfVars>>

\* ---------------------------------------------------- get_names_and_fetch

\* chromium.launch and browser.new_context; either may raise.
gnf_launch ==
    /\ gnfPc = "launch"
    /\ \E fail \in {"ok", "launch", "new_context"} :
        /\ browsers' = IF fail = "launch" THEN browsers
                       ELSE IF fail = "new_context"
                            THEN Exited(Append(browsers, Launched("gnf")), "gnf")
                            ELSE WithContext(Append(browsers, Launched("gnf")), "gnf")
        /\ gnfPc' = IF fail = "ok" THEN "listing" ELSE "raised"
        /\ gnfExc' = IF fail = "ok" THEN gnfExc ELSE fail \o " failed"
    /\ launchCalls' = launchCalls + 1
    /\ UNCHANGED <<epVars, logged, failedFetches, sasVars, gnfCaller, gnfUrl, gnfKnown, listed,
                   trunc_products, new_products, taskResult, completion, gnfResult>>

\* trunc_products = await get_product_names(context, url): opening the page,
\* navigating or scrolling raises; a failing query, or a product the query
\* answers without a field, is logged and gives None; else the first five.
get_product_names ==
    /\ gnfPc = "listing"
    /\ \/ \E fail \in {"new_page", "goto", "wheel"} :
            /\ gnfPc' = "raised" /\ gnfExc' = fail \o " failed"
            /\ browsers' = Exited(browsers, "gnf")
            /\ UNCHANGED <<listed, trunc_products, logged>>
       \/ /\ gnfPc' = "filter"
          /\ listed' = None /\ trunc_products' = None
          /\ logged' = logged \cup {"products"}
          /\ UNCHANGED <<browsers, gnfExc>>
       \/ \E n \in 0..MaxListed :
            /\ gnfPc' = "filter"
            /\ listed' = Some(ListingResponse(n))
            /\ trunc_products' = Some(Truncate(ListingResponse(n)))
            /\ UNCHANGED <<browsers, gnfExc, logged>>
    /\ UNCHANGED <<epVars, launchCalls, failedFetches, sasVars, gnfCaller, gnfUrl,
                   gnfKnown, new_products, taskResult, completion, gnfResult>>

\* new_products = [...]: iterating None raises TypeError; otherwise the
\* filter, and one fetch_product task per new product.
gnf_filter ==
    /\ gnfPc = "filter"
    /\ IF trunc_products = None
       THEN /\ gnfPc' = "raised"
            /\ gnfExc' = "'NoneType' object is not iterable"
            /\ browsers' = Exited(browsers, "gnf")
            /\ UNCHANGED <<new_products, taskResult>>
       ELSE /\ gnfPc' = "gather"
            /\ new_products' = NewProducts(trunc_products[1], gnfKnown)
            /\ taskResult' = [i \in 1..Len(new_products') |-> None]
            /\ UNCHANGED <<gnfExc, browsers>>
    /\ UNCHANGED <<epVars, logged, launchCalls, failedFetches, sasVars, gnfCaller,
                   gnfUrl, gnfKnown, listed, trunc_products, completion, gnfResult>>

\* One of the concurrent fetch_product tasks runs to its end.
fetch_product_task ==
    /\ gnfPc = "gather"
    /\ \E i \in 1..Len(new_products), fail \in FetchStages \cup {"ok"} :
        /\ i \notin Range(completion)
        /\ LET r == fetch_product(new_products[i], fail)
           IN  /\ taskResult' = [taskResult EXCEPT ![i] = r.value]
               /\ logged' = logged \cup r.logs
               /\ failedFetches' = IF r.value = None
                                    THEN failedFetches \cup {new_products[i].link}
                                    ELSE failedFetches
        /\ completion' = Append(completion, i)
    /\ UNCHANGED <<epVars, browsers, launchCalls, sasVars, gnfPc, gnfCaller, gnfUrl, gnfKnown,
                   listed, trunc_products, new_products, gnfResult, gnfExc>>

\* fetched_products = await asyncio.gather(*tasks); browser.close(); return.
gnf_gather_return ==
    /\ gnfPc = "gather"
    /\ Len(completion) = Len(new_products)
    /\ gnfResult' = NotNone(Gather(taskResult, completion))
    /\ browsers' = Exited(Closed(browsers, "gnf"), "gnf")
    /\ gnfPc' = "returned"
    /\ UNCHANGED <<epVars, logged, launchCalls, failedFetches, sasVars, gnfCaller, gnfUrl, gnfKnown, listed,
                   trunc_products, new_products, taskResult, completion, gnfExc>>

\* ------------------------------------------------------ search_and_scrape

\* chromium.launch, browser.new_context and context.new_page; each may raise.
sas_launch ==
    /\ sasPc = "launch"
    /\ \E fail \in {"ok", "launch", "new_context", "new_page"} :
        /\ browsers' =
              IF fail = "launch" THEN browsers
              ELSE IF fail = "new_context"
                   THEN Exited(Append(browsers, Launched("sas")), "sas")
                   ELSE IF fail = "new_page"
                        THEN Exited(WithContext(Append(browsers, Launched("sas")), "sas"), "sas")
                        ELSE WithContext(Append(browsers, Launched("sas")), "sas")
        /\ sasPc' = IF fail = "ok" THEN "goto" ELSE "raised"
        /\ sasExc' = IF fail = "ok" THEN sasExc ELSE fail \o " failed"
    /\ launchCalls' = launchCalls + 1
    /\ UNCHANGED <<epVars, logged, failedFetches, resp, redirected, final_url,
                   sasResult, gnfVars>>

\* page.goto(search_url) and wait_for_load_state: the browser reports a
\* response to handle_response; either call may still raise.
sas_goto ==
    /\ sasPc = "goto"
    /\ \E response \in Responses(reqUrl), fail \in {"ok", "goto", "wait_for_load_state"} :
        /\ resp' = Some(response)
        /\ LET st == handle_response(response, reqUrl,
                                     [redirected |-> redirected, final_url |-> final_url])
           IN  redirected' = st.redirected /\ final_url' = st.final_url
        /\ sasPc' = IF fail = "ok" THEN "branch" ELSE "raised"
        /\ sasExc' = IF fail = "ok" THEN sasExc ELSE fail \o " failed"
        /\ browsers' = IF fail = "ok" THEN browsers ELSE Exited(browsers, "sas")
    /\ UNCHANGED <<epVars, logged, launchCalls, failedFetches, sasResult, gnfVars>>

\* if not redirected: result = await get_names_and_fetch(search_url, ...)
sas_no_redirect ==
    /\ sasPc = "branch" /\ ~redirected
    /\ LET call == NoRedirectCall(reqUrl, reqKnown)
       IN  EnterGnf("sas", call.url, call.known)
    /\ sasPc' = "await"
    /\ UNCHANGED <<epVars, envVars, resp, redirected, final_url, sasResult, sasExc>>

\* The awaited get_names_and_fetch returned (its list is the result) or
\* raised (the exception leaves search_and_scrape).
sas_gnf_done ==
    /\ sasPc = "await" /\ gnfCaller = "sas" /\ gnfPc \in {"returned", "raised"}
    /\ IF gnfPc = "returned"
       THEN /\ sasResult' = gnfResult /\ sasPc' = "close"
            /\ UNCHANGED <<sasExc, browsers>>
       ELSE /\ sasExc' = gnfExc /\ sasPc' = "raised"
            /\ browsers' = Exited(browsers, "sas")
            /\ UNCHANGED sasResult
    /\ UNCHANGED <<epVars, logged, launchCalls, failedFetches, resp, redirected,
                   final_url, gnfVars>>

\* else: details = await fetch_product_details(context, final_url);
\* result = [details] if details else []
sas_redirect ==
    /\ sasPc = "branch" /\ redirected
    /\ \E fail \in FetchStages \cup {"ok"},
          info \in {None} \cup {Some(SiteProduct(i)) : i \in 1..NumNames} :
        LET r == fetch_product_details(final_url, None, fail, info)
        IN  /\ logged' = logged \cup r.logs
            /\ failedFetches' = IF r.raised \/ r.value = None
                                 THEN failedFetches \cup {final_url}
                                 ELSE failedFetches
            /\ IF r.raised
               THEN /\ sasPc' = "raised" /\ sasExc' = r.exc
                    /\ browsers' = Exited(browsers, "sas")
                    /\ UNCHANGED sasResult
               ELSE /\ sasPc' = "close" /\ sasResult' = RedirectResult(r.value)
                    /\ UNCHANGED <<sasExc, browsers>>
    /\ UNCHANGED <<epVars, launchCalls, resp, redirected, final_url, gnfVars>>

\* await browser.close(); return result
sas_close_return ==
    /\ sasPc = "close"
    /\ browsers' = Exited(Closed(browsers, "sas"), "sas")
    /\ sasPc' = "returned"
    /\ UNCHANGED <<epVars, logged, launchCalls, failedFetches, resp, redirected,
                   final_url, sasResult, sasExc, gnfVars>>

\* ------------------------------------------------------------ the system
Next ==
    \/ scrape_endpoint
    \/ scrape_endpoint_respond
    \/ search_and_scrape_endpoint
    \/ search_and_scrape_endpoint_respond
    \/ gnf_launch
    \/ get_product_names
    \/ gnf_filter
    \/ fetch_product_task
    \/ gnf_gather_return
    \/ sas_launch
    \/ sas_goto
    \/ sas_no_redirect
    \/ sas_gnf_done
    \/ sas_redirect
    \/ sas_close_return

Spec == Init /\ [][Next]_vars

\* ----------------------------------------------------------- properties
Done == epPc = "done"
Items == outcome.items

\* The response handle_response saw is a redirect of the search URL.
SawRedirect ==
    /\ resp # None
    /\ resp[1].url = reqUrl /\ resp[1].status >= 300 /\ resp[1].status <= 399

\* The search request went down its no-redirect branch.
NoRedirectBranch ==
    /\ endpoint = "search" /\ resp # None /\ ~SawRedirect
    /\ sasExc \notin {"goto failed", "wait_for_load_state failed"}

RECURSIVE IsSubseq(_, _)
IsSubseq(a, b) ==
    IF a = <<>> THEN TRUE
    ELSE IF b = <<>> THEN FALSE
    ELSE IF Head(a) = Head(b) THEN IsSubseq(Tail(a), Tail(b))
    ELSE IsSubseq(a, Tail(b))

\* C1: no product of the response has a name that is in the request's
\* existing_product_names, on either endpoint and on both search branches.
C1_NoKnownNameReturned ==
    Done => \A i \in 1..Len(Items) : Items[i].name \notin reqKnown

\* C2: when the listing query of get_product_names fails, the failure is
\* logged and the request completes with the empty list instead of an error.
C2_ListingFailureGivesEmptyList ==
    (Done /\ "products" \in logged) => (outcome.kind = "list" /\ Items = <<>>)

\* C3: a product whose detail extraction failed at any step is absent from
\* the response and the request still answers with a list, in the fan-out
\* and on the redirect branch alike.
C3_FailedFetchIsOmission ==
    (Done /\ failedFetches # {})
        => /\ outcome.kind = "list"
           /\ \A i \in 1..Len(Items) :
                \A u \in failedFetches : Items[i].attrs # DetailResponse(u)

\* C4: the list get_names_and_fetch returns has at most 5 elements and at
\* most as many as the listing query answered products with an unknown name.
C4_AtMostFiveAndAtMostNew ==
    gnfPc = "returned"
        => /\ Len(gnfResult) <= 5
           /\ listed # None
           /\ Len(gnfResult) <=
                Cardinality({i \in 1..Len(listed[1]) : listed[1][i].name \notin gnfKnown})

C4_Witness ==
    /\ gnfPc = "returned" /\ listed # None
    /\ Len(listed[1]) > 5 /\ Len(gnfResult) = 5

\* C5: a request launches one browser with one browsing context, and every
\* browser it launched is torn down when the request ends.
C5_OneBrowserPerRequest ==
    Done => /\ launchCalls = 1
            /\ Len(browsers) <= 1
            /\ \A i \in 1..Len(browsers) :
                 browsers[i].contexts <= 1 /\ (browsers[i].closed \/ browsers[i].exited)

\* C6 as stated: after a redirect of the search URL the response has at most
\* one element, extracted from the Location of the redirect.
C6_RedirectTargetIsLocation ==
    (Done /\ endpoint = "search" /\ SawRedirect /\ outcome.kind = "list")
        => /\ Len(Items) <= 1
           /\ \A i \in 1..Len(Items) :
                /\ resp[1].location # None
                /\ Items[i].attrs = DetailResponse(resp[1].location[1])

\* C6 amended: after a redirect of the search URL the response has at most
\* one element, extracted from the Location of the redirect when the 3xx
\* response has a Location header and from the search URL itself when not.
C6_RedirectTargetOrSearchUrl ==
    (Done /\ endpoint = "search" /\ SawRedirect /\ outcome.kind = "list")
        => /\ Len(Items) <= 1
           /\ gnfCaller = "none"
           /\ \A i \in 1..Len(Items) :
                Items[i].attrs = IF resp[1].location = <<>>
                                 THEN DetailResponse(reqUrl)
                                 ELSE DetailResponse(resp[1].location[1])

C6_Witness ==
    /\ Done /\ endpoint = "search" /\ SawRedirect
    /\ resp[1].location # None
    /\ Len(Items) = 1 /\ Items[1].attrs = DetailResponse(resp[1].location[1])

\* C7: without a redirect the search request answers what get_names_and_fetch
\* answers when called on the search URL with the request's known names: the
\* same list, or the same error.
C7_NoRedirectIsGetNamesAndFetch ==
    (Done /\ NoRedirectBranch)
        => /\ gnfCaller = "sas" /\ gnfUrl = reqUrl /\ gnfKnown = reqKnown
           /\ \/ gnfPc = "returned" /\ outcome.kind = "list" /\ Items = gnfResult
              \/ gnfPc = "raised" /\ outcome.kind = "http500" /\ outcome.detail = gnfExc

C7_Witness ==
    /\ Done /\ NoRedirectBranch /\ reqKnown # {}
    /\ gnfPc = "returned" /\ Len(Items) >= 2 /\ failedFetches # {}

\* C8: a request in flight can always take a step, and it ends either with a
\* list or with HTTP 500 carrying the text of the exception that left
\* get_names_and_fetch or search_and_scrape; nothing else.
C8_ListOrHttp500 ==
    /\ epPc = "await" => ENABLED Next
    /\ Done =>
        LET raised == IF endpoint = "scrape" THEN gnfPc = "raised" ELSE sasPc = "raised"
            exc == IF endpoint = "scrape" THEN gnfExc ELSE sasExc
        IN  /\ outcome.kind \in {"list", "http500"}
            /\ outcome.kind = "http500" <=> raised
            /\ outcome.kind = "http500" => outcome.detail = exc /\ exc # ""

C8_Witness ==
    /\ Done /\ endpoint = "search" /\ outcome.kind = "http500"
    /\ gnfPc = "raised" /\ outcome.detail = gnfExc

C10_ListingOrderKept ==
    gnfPc = "returned"
        => /\ listed # None
           /\ IsSubseq([i \in 1..Len(gnfResult) |-> BaseOf(gnfResult[i])], listed[1])
           /\ \A i \in 1..Len(gnfResult) :
                gnfResult[i].attrs = DetailResponse(gnfResult[i].link)

C10_Witness ==
    /\ gnfPc = "returned" /\ Len(gnfResult) >= 2
    /\ Len(completion) >= 3
    /\ completion[1] > completion[2]
    /\ taskResult[completion[1]] # None /\ taskResult[completion[2]] # None
    /\ failedFetches # {}
====
